---- MODULE Spec2Model ----
(***************************************************************************)
(* Receipt Vault Analyzer: the receipt validation engine                   *)
(* (ui/validation_ui.py, validate_receipt) and the flows that call it      *)
(* (ui/upload_ui.py, ui/validation_ui.py, ui/dashboard_ui.py).             *)
(*                                                                         *)
(* Python values are tagged records [k, s, n]: k is the kind of the value, *)
(* s its text (for strings) and n its integer value (for numbers).         *)
(* Floats are records [nan, v]; every finite float the model computes is   *)
(* integer valued, and for the integer inputs enumerated here IEEE double  *)
(* arithmetic gives the same comparisons as exact arithmetic.              *)
(* The currency sign of the messages is written "Rs".                      *)
(***************************************************************************)
EXTENDS Integers, Sequences, FiniteSets, TLC

VARIABLES
    store,      \* the persisted receipts, in the order fetch_all_receipts gives
    session,    \* st.session_state: LAST_EXTRACTED_RECEIPT, LAST_VALIDATION_REPORT
    call,       \* the latest call of validate_receipt: who called, with what
    ret,        \* what that call returned and left behind
    run,        \* how the latest page run ended
    kept        \* the first of a series of calls made on their own, and their number

vars == <<store, session, call, ret, run, kept>>

\* ---------------------------------------------------------------- bounds
MaxStore == 2
MaxAmount == 10
MaxTax == 2
MaxCalls == 3

\* ------------------------------------------------------------- constants
\* EXPECTED_TAX_RATE = 0.08 and TOLERANCE = 0.05, in hundredths
EXPECTED_TAX_RATE == 8
TOLERANCE == 5

\* ---------------------------------------------------------- python values
Absent == [k |-> "absent", s |-> "", n |-> 0]
None == [k |-> "none", s |-> "", n |-> 0]
Str(s) == [k |-> "str", s |-> s, n |-> 0]
NumStr(n) == [k |-> "numstr", s |-> ToString(n), n |-> n]
PyInt(n) == [k |-> "int", s |-> "", n |-> n]
BigInt == [k |-> "bigint", s |-> "10**400", n |-> 0]
FloatNaN == [k |-> "nan", s |-> "nan", n |-> 0]

Flt(n) == [nan |-> FALSE, v |-> n]
NaN == [nan |-> TRUE, v |-> 0]

\* data.get(f): an absent key reads as None
Get(data, f) == IF data[f].k = "absent" THEN None ELSE data[f]

\* str(x)
PyStr(x) == IF x.k = "int" THEN ToString(x.n) ELSE x.s

\* f"{x:.2f}" of a float
Fmt2(x) == IF x.nan THEN "nan" ELSE ToString(x.v) \o ".00"

\* f"{tax / subtotal * 100:.2f}" for positive integers: round half to even
\* on the hundredths of a percent
RateHundredths(tax, subtotal) ==
    LET num == tax * 10000
        q == num \div subtotal
        rem == num % subtotal
    IN IF 2 * rem > subtotal \/ (2 * rem = subtotal /\ q % 2 = 1) THEN q + 1 ELSE q

FmtRate(tax, subtotal) ==
    LET h == RateHundredths(tax, subtotal)
        c == h % 100
    IN ToString(h \div 100) \o "." \o (IF c < 10 THEN "0" ELSE "") \o ToString(c)

\* ', '.join(xs)
RECURSIVE Join(_)
Join(xs) ==
    IF Len(xs) = 0 THEN ""
    ELSE IF Len(xs) = 1 THEN xs[1]
    ELSE xs[1] \o ", " \o Join(Tail(xs))

\* ------------------------------------------------------------ date parsing
\* The texts a date field takes, with the fields "%Y-%m-%d" would read from
\* them (ok = FALSE when the text does not have the shape digits-digits-digits).
DateShape(s) ==
    CASE s = "2024-02-29" -> [ok |-> TRUE, y |-> 2024, m |-> 2, d |-> 29]
      [] s = "2023-02-29" -> [ok |-> TRUE, y |-> 2023, m |-> 2, d |-> 29]
      [] s = "2024-13-01" -> [ok |-> TRUE, y |-> 2024, m |-> 13, d |-> 1]
      [] s = "2024-01-15" -> [ok |-> TRUE, y |-> 2024, m |-> 1, d |-> 15]
      [] OTHER -> [ok |-> FALSE, y |-> 0, m |-> 0, d |-> 0]

IsLeap(y) == (y % 4 = 0 /\ y % 100 # 0) \/ y % 400 = 0

DaysIn(y, m) ==
    IF m = 2 THEN (IF IsLeap(y) THEN 29 ELSE 28)
    ELSE IF m \in {4, 6, 9, 11} THEN 30 ELSE 31

\* datetime.strptime(s, "%Y-%m-%d") does not raise
StrptimeOk(s) ==
    LET p == DateShape(s)
    IN p.ok /\ p.m \in 1..12 /\ p.d >= 1 /\ p.d <= DaysIn(p.y, p.m)

\* ------------------------------------------------------- persisted receipts
\* database.queries.receipt_exists: a point read of the persisted receipts
receipt_exists(db, bill_id) == \E i \in 1..Len(db) : db[i].bill_id = bill_id

\* --------------------------------------------------------- validate_receipt
Required == <<"bill_id", "vendor", "date", "amount", "tax">>

\* the tax field left out of the required list
Missing_WithoutTax(data) ==
    SelectSeq(<<"bill_id", "vendor", "date", "amount">>, LAMBDA f : Get(data, f).k = "none")

\* missing = [f for f in required if data.get(f) is None]
Missing(data) == SelectSeq(Required, LAMBDA f : Get(data, f).k = "none")

Result(title, status, message) ==
    [title |-> title, status |-> status, message |-> message]

\* The locals of one call: results = [] and passed = True
Locals0 == [passed |-> TRUE, results |-> <<>>]

\* results.append(r), leaving passed alone
Ok(st, r) == [st EXCEPT !.results = Append(@, r)]

\* results.append(r); passed = False
Fail(st, r) == [passed |-> FALSE, results |-> Append(st.results, r)]

RequiredFields(st, data) ==
    IF Len(Missing(data)) > 0
    THEN Fail(st, Result("Required Fields", "error",
                         "Missing fields: " \o Join(Missing(data))))
    ELSE Ok(st, Result("Required Fields", "success", "All required fields present"))

DateFormat(st, data) ==
    IF StrptimeOk(PyStr(data.date))
    THEN Ok(st, Result("Date Format", "success", "Valid date: " \o PyStr(data.date)))
    ELSE Fail(st, Result("Date Format", "error",
                         "Invalid date format: " \o PyStr(data.date)))

\* float(x): the value, or the exception it raises
Float(x) ==
    CASE x.k = "int" -> [exc |-> "", val |-> Flt(x.n)]
      [] x.k = "numstr" -> [exc |-> "", val |-> Flt(x.n)]
      [] x.k = "nan" -> [exc |-> "", val |-> NaN]
      [] x.k = "str" -> [exc |-> "ValueError", val |-> Flt(0)]
      [] x.k = "bigint" -> [exc |-> "OverflowError", val |-> Flt(0)]
      [] OTHER -> [exc |-> "TypeError", val |-> Flt(0)]

\* the fallback value 1.0 instead of 0.0
Coerce_DefaultOne(x) ==
    IF Float(x).exc \in {"ValueError", "TypeError"}
    THEN [exc |-> "", val |-> Flt(1)]
    ELSE Float(x)

\* try: float(x)  except (ValueError, TypeError): 0.0
Coerce(x) ==
    IF Float(x).exc \in {"ValueError", "TypeError"}
    THEN [exc |-> "", val |-> Flt(0)]
    ELSE Float(x)

GtZero(x) == ~x.nan /\ x.v > 0
LeZero(x) == ~x.nan /\ x.v <= 0
IsZero(x) == ~x.nan /\ x.v = 0
Minus(a, b) == IF a.nan \/ b.nan THEN NaN ELSE Flt(a.v - b.v)

\* the error branch without its passed = False
TotalValidation_KeepsPassed(st, amount) ==
    IF GtZero(amount)
    THEN Ok(st, Result("Total Validation", "success",
                       "Amount detected: Rs" \o Fmt2(amount)))
    ELSE Ok(st, Result("Total Validation", "error", "Invalid amount value"))

TotalValidation(st, amount) ==
    IF GtZero(amount)
    THEN Ok(st, Result("Total Validation", "success",
                       "Amount detected: Rs" \o Fmt2(amount)))
    ELSE Fail(st, Result("Total Validation", "error", "Invalid amount value"))

Abs(n) == IF n < 0 THEN -n ELSE n

\* the tolerance taken relative to the expected rate (5% of 8%)
WithinTolerance_Relative(tax, subtotal) ==
    /\ ~tax.nan
    /\ ~subtotal.nan
    /\ 100 * Abs(100 * tax.v - EXPECTED_TAX_RATE * subtotal.v)
         <= TOLERANCE * EXPECTED_TAX_RATE * subtotal.v

\* abs(tax / subtotal - EXPECTED_TAX_RATE) <= TOLERANCE, for subtotal > 0
\* (a comparison with a NaN operand is false)
WithinTolerance(tax, subtotal) ==
    /\ ~tax.nan
    /\ ~subtotal.nan
    /\ Abs(100 * tax.v - EXPECTED_TAX_RATE * subtotal.v) <= TOLERANCE * subtotal.v

\* one turn of the loop over the candidates: does it reach the break
Qualifies(tax, subtotal) == ~LeZero(subtotal) /\ WithinTolerance(tax, subtotal)

\* the candidates tried in the other order
TaxMatch_AmountFirst(amount, tax) ==
    IF Qualifies(tax, amount)
    THEN [valid |-> TRUE, used_subtotal |-> amount]
    ELSE IF Qualifies(tax, Minus(amount, tax))
    THEN [valid |-> TRUE, used_subtotal |-> Minus(amount, tax)]
    ELSE [valid |-> FALSE, used_subtotal |-> Flt(0)]

\* for subtotal in [amount - tax, amount]: the first candidate that breaks
TaxMatch(amount, tax) ==
    IF Qualifies(tax, Minus(amount, tax))
    THEN [valid |-> TRUE, used_subtotal |-> Minus(amount, tax)]
    ELSE IF Qualifies(tax, amount)
    THEN [valid |-> TRUE, used_subtotal |-> amount]
    ELSE [valid |-> FALSE, used_subtotal |-> Flt(0)]

\* the rule without its tax == 0 branch
TaxRateValidation_NoZeroBranch(st, amount, tax) ==
    IF TaxMatch(amount, tax).valid
    THEN Ok(st, Result("Tax Rate Validation", "success",
                "Tax rate OK (" \o FmtRate(tax.v, TaxMatch(amount, tax).used_subtotal.v)
                \o "%, Subtotal Rs" \o Fmt2(TaxMatch(amount, tax).used_subtotal) \o ")"))
    ELSE Fail(st, Result("Tax Rate Validation", "error",
                "Tax mismatch. Expected ~" \o ToString(EXPECTED_TAX_RATE)
                \o ".0% but got Rs" \o Fmt2(tax) \o " on amount Rs" \o Fmt2(amount)))

TaxRateValidation(st, amount, tax) ==
    IF IsZero(tax)
    THEN Ok(st, Result("Tax Rate Validation", "success", "No tax applied (valid)"))
    ELSE IF TaxMatch(amount, tax).valid
    THEN Ok(st, Result("Tax Rate Validation", "success",
                "Tax rate OK (" \o FmtRate(tax.v, TaxMatch(amount, tax).used_subtotal.v)
                \o "%, Subtotal Rs" \o Fmt2(TaxMatch(amount, tax).used_subtotal) \o ")"))
    ELSE Fail(st, Result("Tax Rate Validation", "error",
                "Tax mismatch. Expected ~" \o ToString(EXPECTED_TAX_RATE)
                \o ".0% but got Rs" \o Fmt2(tax) \o " on amount Rs" \o Fmt2(amount)))

\* any persisted receipt taken for a duplicate
DuplicateDetection_AnyStored(st, db, data) ==
    IF Len(db) > 0
    THEN Fail(st, Result("Duplicate Detection", "error", "Duplicate receipt found"))
    ELSE Ok(st, Result("Duplicate Detection", "success", "No duplicate found"))

\* the duplicate branch without its passed = False
DuplicateDetection_KeepsPassed(st, db, data) ==
    IF receipt_exists(db, data.bill_id)
    THEN Ok(st, Result("Duplicate Detection", "error", "Duplicate receipt found"))
    ELSE Ok(st, Result("Duplicate Detection", "success", "No duplicate found"))

DuplicateDetection(st, db, data) ==
    IF receipt_exists(db, data.bill_id)
    THEN Fail(st, Result("Duplicate Detection", "error", "Duplicate receipt found"))
    ELSE Ok(st, Result("Duplicate Detection", "success", "No duplicate found"))

\* What one call returns and leaves behind: exc is the exception that left
\* the call ("" when it returned), passed and results the report, lookups the
\* arguments receipt_exists was called with, data the record after the call,
\* env the persisted receipts (db) and the session state after the call.
\* the report also kept in the session state by the validator itself
Outcome_CachesReport(exc, st, lookups, data, env) ==
    [exc |-> exc, passed |-> st.passed, results |-> st.results,
     lookups |-> lookups, data |-> data,
     env |-> [env EXCEPT !.session.LAST_VALIDATION_REPORT =
                [set |-> TRUE, value |-> [passed |-> st.passed, results |-> st.results]]]]

Outcome(exc, st, lookups, data, env) ==
    [exc |-> exc, passed |-> st.passed, results |-> st.results,
     lookups |-> lookups, data |-> data, env |-> env]

Raised(exc, data, env) ==
    [exc |-> exc, passed |-> FALSE, results |-> <<>>,
     lookups |-> <<>>, data |-> data, env |-> env]

\* a failing Date Format rule returning the report at once
validate_receipt_StopsAtDate(data, skip_duplicate, env) ==
    LET st1 == RequiredFields(Locals0, data)
    IN IF Len(Missing(data)) > 0 THEN Outcome("", st1, <<>>, data, env)
       ELSE
       LET st2 == DateFormat(st1, data)
           amount == Coerce(data.amount)
           tax == Coerce(data.tax)
       IN IF ~st2.passed THEN Outcome("", st2, <<>>, data, env)
          ELSE IF amount.exc # "" THEN Raised(amount.exc, data, env)
          ELSE IF tax.exc # "" THEN Raised(tax.exc, data, env)
          ELSE
          LET st3 == TotalValidation(st2, amount.val)
              st4 == TaxRateValidation(st3, amount.val, tax.val)
          IN IF skip_duplicate
             THEN Outcome("", st4, <<>>, data, env)
             ELSE Outcome("", DuplicateDetection(st4, env.db, data),
                          <<data.bill_id>>, data, env)

validate_receipt(data, skip_duplicate, env) ==
    LET st1 == RequiredFields(Locals0, data)
    IN IF Len(Missing(data)) > 0 THEN Outcome("", st1, <<>>, data, env)
       ELSE
       LET st2 == DateFormat(st1, data)
           amount == Coerce(data.amount)
           tax == Coerce(data.tax)
       IN IF amount.exc # "" THEN Raised(amount.exc, data, env)
          ELSE IF tax.exc # "" THEN Raised(tax.exc, data, env)
          ELSE
          LET st3 == TotalValidation(st2, amount.val)
              st4 == TaxRateValidation(st3, amount.val, tax.val)
          IN IF skip_duplicate
             THEN Outcome("", st4, <<>>, data, env)
             ELSE Outcome("", DuplicateDetection(st4, env.db, data),
                          <<data.bill_id>>, data, env)

\* ------------------------------------------------------------------ inputs
Rec(b, v, d, a, t) == [bill_id |-> b, vendor |-> v, date |-> d, amount |-> a, tax |-> t]

B1 == Str("B1")
B2 == Str("B2")
Acme == Str("Acme")
GoodDate == Str("2024-02-29")

DateValues ==
    {None, GoodDate, Str("2024-01-15"), Str("2023-02-29"), Str("2024-13-01"),
     Str("15/01/2024"), PyInt(20240115)}

AmountValues ==
    {PyInt(n) : n \in (-1..MaxAmount) \cup {50, 100, 108}}
    \cup {Absent, None, Str("abc"), NumStr(108), BigInt, FloatNaN}

TaxValues ==
    {PyInt(n) : n \in (-1..MaxTax) \cup {8, 13, 40}}
    \cup {None, Str("n/a"), NumStr(8), BigInt, FloatNaN}

\* The records validate_receipt is called with directly: every kind of value
\* in the text fields with a few amounts and taxes, and every amount and tax
\* with a few text fields.
Records ==
    {Rec(b, v, d, a, t) : b \in {None, B1, B2}, v \in {Absent, None, Acme},
                          d \in DateValues,
                          a \in {None, Str("abc"), PyInt(0), PyInt(108)},
                          t \in {None, Str("n/a"), PyInt(0), PyInt(8)}}
    \cup {Rec(b, Acme, d, a, t) : b \in {B1, B2}, d \in {GoodDate, Str("15/01/2024")},
                                  a \in AmountValues, t \in TaxValues}

\* What the extraction (OCR or AI) hands the upload page
Extracted ==
    {Rec(b, Acme, GoodDate, a, PyInt(8)) : b \in {B1, B2}, a \in {PyInt(108), PyInt(50)}}
    \cup {Rec(None, Acme, GoodDate, PyInt(108), PyInt(8)),
          Rec(B1, Acme, GoodDate, BigInt, PyInt(8)),
          Rec(B2, Acme, GoodDate, Str("abc"), PyInt(8))}

\* The receipts a database holds when a session starts
Persisted == {Rec(B1, Acme, GoodDate, PyInt(108), PyInt(8))}

\* session_state.get(key) is None
NoValue == [set |-> FALSE]
Held(x) == [set |-> TRUE, value |-> x]

Session0 == [LAST_EXTRACTED_RECEIPT |-> NoValue, LAST_VALIDATION_REPORT |-> NoValue]

Env(db, ss) == [db |-> db, session |-> ss]

NoRecord == Rec(None, None, None, None, None)

NoCall == [by |-> "none", data |-> NoRecord, skip |-> FALSE, env |-> Env(<<>>, Session0)]

NoRet == Raised("", NoRecord, Env(<<>>, Session0))

\* the report a caller gets: {"passed": passed, "results": results}
Report(out) == [passed |-> out.passed, results |-> out.results]

\* database.queries.save_receipt, delete_receipt and fetch_all_receipts
save_receipt(db, data) == Append(db, data)
delete_receipt(db, bid) == SelectSeq(db, LAMBDA r : r.bill_id # bid)
fetch_all_receipts(db) == db

\* no call of a series made yet
Kept0 == [n |-> 0, others |-> 0, call |-> NoCall, ret |-> NoRet]

\* ----------------------------------------------------------------- actions
Stores0 == {<<>>} \cup {<<r>> : r \in Persisted}

\* a call of validate_receipt about to be made on its own
InitCall ==
    /\ store \in Stores0
    /\ session = Session0
    /\ call \in {[by |-> "pending", data |-> d, skip |-> sk, env |-> Env(store, session)] :
                   d \in Records, sk \in BOOLEAN}
    /\ ret = NoRet
    /\ run = "none"
    /\ kept = Kept0

\* a session of the application starts
InitApp ==
    /\ store \in Stores0
    /\ session = Session0
    /\ call = NoCall
    /\ ret = NoRet
    /\ run = "none"
    /\ kept = Kept0

Init == InitCall \/ InitApp

\* validate_receipt(data, skip_duplicate) called on its own
Validate ==
    /\ call.by = "pending"
    /\ LET out == validate_receipt(call.data, call.skip, Env(store, session))
       IN /\ call' = [call EXCEPT !.by = "direct"]
          /\ ret' = out
          /\ store' = out.env.db
          /\ session' = out.env.session
          /\ run' = IF out.exc = "" THEN "returned" ELSE "raised"
          /\ UNCHANGED kept

InApp == call.by \notin {"pending", "direct"}

\* round(x, 2) in the summary table raises TypeError
RoundRaises(x) == x.k \in {"none", "str", "numstr"}

\* building the summary table raises (KeyError on data[key], TypeError on round)
SummaryRaises(data) ==
    \/ \E f \in {"bill_id", "vendor", "date", "tax", "amount"} : data[f].k = "absent"
    \/ RoundRaises(data.tax)
    \/ RoundRaises(data.amount)

\* the run without its duplicate check before the validation
UploadExtracted_NoDuplicateCheck(data) ==
    LET ss1 == [session EXCEPT !.LAST_EXTRACTED_RECEIPT = Held(data)]
        out == validate_receipt(data, FALSE, Env(store, ss1))
    IN /\ InApp
       /\ UNCHANGED kept
       /\ IF SummaryRaises(data)
          THEN /\ session' = ss1
               /\ run' = "raised"
               /\ UNCHANGED <<store, call, ret>>
          ELSE /\ call' = [by |-> "upload", data |-> data, skip |-> FALSE,
                           env |-> Env(store, ss1)]
               /\ ret' = out
               /\ IF out.exc # ""
                  THEN /\ session' = out.env.session
                       /\ store' = out.env.db
                       /\ run' = "raised"
                  ELSE /\ Len(store) < MaxStore
                       /\ session' = [out.env.session EXCEPT
                                        !.LAST_VALIDATION_REPORT = Held(Report(out))]
                       /\ store' = save_receipt(out.env.db, out.data)
                       /\ run' = "saved"

\* render_upload_ui, from the Extract & Save button on, with the extraction
\* giving data
UploadExtracted(data) ==
    LET ss1 == [session EXCEPT !.LAST_EXTRACTED_RECEIPT = Held(data)]
        out == validate_receipt(data, FALSE, Env(store, ss1))
    IN /\ InApp
       /\ UNCHANGED kept
       /\ IF SummaryRaises(data)
          THEN /\ session' = ss1
               /\ run' = "raised"
               /\ UNCHANGED <<store, call, ret>>
          ELSE IF receipt_exists(store, data.bill_id)
          THEN /\ session' = ss1
               /\ run' = "duplicate"
               /\ UNCHANGED <<store, call, ret>>
          ELSE /\ call' = [by |-> "upload", data |-> data, skip |-> FALSE,
                           env |-> Env(store, ss1)]
               /\ ret' = out
               /\ IF out.exc # ""
                  THEN /\ session' = out.env.session
                       /\ store' = out.env.db
                       /\ run' = "raised"
                  ELSE /\ Len(store) < MaxStore
                       /\ session' = [out.env.session EXCEPT
                                        !.LAST_VALIDATION_REPORT = Held(Report(out))]
                       /\ store' = save_receipt(out.env.db, out.data)
                       /\ run' = "saved"

\* render_upload_ui returning before anything is extracted (no file, a PDF
\* that does not convert, no readable text)
UploadNothing ==
    /\ InApp
    /\ run' = "no_text"
    /\ UNCHANGED <<store, session, call, ret, kept>>

\* `bill_id not in r["bill_id"]` of the stored-receipt filter
RECURSIVE FirstMatch(_, _)
FirstMatch(rows, bill_id) ==
    IF Len(rows) = 0 THEN [kind |-> "none"]
    ELSE IF bill_id # "" /\ Head(rows).bill_id.k # "str" THEN [kind |-> "raised"]
    ELSE IF bill_id # "" /\ bill_id # Head(rows).bill_id.s
    THEN FirstMatch(Tail(rows), bill_id)
    ELSE [kind |-> "match", r |-> Head(rows)]

\* validation_ui, the Run Validation button with the Bill ID filter bill_id
\* (the other three filters left empty)
RunValidation(bill_id) ==
    LET m == FirstMatch(fetch_all_receipts(store), bill_id)
    IN /\ InApp
       /\ UNCHANGED kept
       /\ IF m.kind # "match"
          THEN /\ run' = (IF m.kind = "none" THEN "no_match" ELSE "raised")
               /\ UNCHANGED <<store, session, call, ret>>
          ELSE LET out == validate_receipt(m.r, TRUE, Env(store, session))
               IN /\ call' = [by |-> "stored", data |-> m.r, skip |-> TRUE,
                              env |-> Env(store, session)]
                  /\ ret' = out
                  /\ store' = out.env.db
                  /\ session' = out.env.session
                  /\ run' = IF out.exc = "" THEN "shown" ELSE "raised"

\* validation_ui, the Current Uploaded Receipt section: what it shows
CurrentUploadedReceipt(ss) ==
    IF ss.LAST_EXTRACTED_RECEIPT.set /\ ss.LAST_VALIDATION_REPORT.set
    THEN [shown |-> TRUE, data |-> ss.LAST_EXTRACTED_RECEIPT.value,
          report |-> ss.LAST_VALIDATION_REPORT.value]
    ELSE [shown |-> FALSE, data |-> NoRecord, report |-> Report(NoRet)]

StoredIds == {store[i].bill_id : i \in 1..Len(store)}

\* render_dashboard, the Delete Selected Receipts button with the rows of
\* bill_id bid selected
DeleteSelected(bid) ==
    /\ InApp
    /\ bid \in StoredIds
    /\ store' = delete_receipt(store, bid)
    /\ run' = "deleted"
    /\ UNCHANGED <<session, call, ret, kept>>

Next ==
    \/ Validate
    \/ \E data \in Extracted : UploadExtracted(data)
    \/ UploadNothing
    \/ \E bill_id \in {"", "B1", "B2"} : RunValidation(bill_id)
    \/ \E bid \in {None, B1, B2} : DeleteSelected(bid)

Spec == Init /\ [][Next]_vars

\* ------------------------------------------------- a series of calls
\* The records of a series of calls of validate_receipt, and the receipts
\* the upload page saves between two calls of the series
RepeatRecords ==
    {Rec(b, Acme, GoodDate, PyInt(108), PyInt(8)) : b \in {B1, B2}}
    \cup {Rec(B2, Acme, Str("15/01/2024"), PyInt(0), PyInt(40)),
          Rec(B1, Acme, GoodDate, BigInt, PyInt(8))}

SavedBetween == {Rec(b, Acme, GoodDate, PyInt(50), PyInt(8)) : b \in {B1, B2}}

Pending(d, sk) == [by |-> "pending", data |-> d, skip |-> sk, env |-> Env(store, session)]

InitRepeat ==
    /\ store \in Stores0
    /\ session = Session0
    /\ call \in {Pending(d, sk) : d \in RepeatRecords, sk \in BOOLEAN}
    /\ ret = NoRet
    /\ run = "none"
    /\ kept = Kept0

\* validate_receipt(data, skip_duplicate) called as one of a series
ValidateInSeries ==
    /\ call.by = "pending"
    /\ LET out == validate_receipt(call.data, call.skip, Env(store, session))
       IN /\ call' = [call EXCEPT !.by = "direct"]
          /\ ret' = out
          /\ store' = out.env.db
          /\ session' = out.env.session
          /\ run' = IF out.exc = "" THEN "returned" ELSE "raised"
          /\ kept' = IF kept.n = 0
                     THEN [n |-> 1, others |-> 0, call |-> call', ret |-> out]
                     ELSE [kept EXCEPT !.n = @ + 1,
                                       !.others = IF call.data # kept.call.data
                                                  THEN 1 ELSE @]

\* the caller goes on to its next call
CallAgain(d, sk) ==
    /\ call.by = "direct"
    /\ kept.n < MaxCalls
    /\ call' = Pending(d, sk)
    /\ UNCHANGED <<store, session, ret, run, kept>>

\* between two calls the upload page extracts and saves a receipt
UploadBetween(data) ==
    /\ call.by = "direct"
    /\ ~receipt_exists(store, data.bill_id)
    /\ Len(store) < MaxStore
    /\ store' = save_receipt(store, data)
    /\ session' = [session EXCEPT !.LAST_EXTRACTED_RECEIPT = Held(data)]
    /\ UNCHANGED <<call, ret, run, kept>>

\* between two calls the dashboard deletes the receipts of a bill_id
DeleteBetween(bid) ==
    /\ call.by = "direct"
    /\ bid \in StoredIds
    /\ store' = delete_receipt(store, bid)
    /\ UNCHANGED <<session, call, ret, run, kept>>

NextRepeat ==
    \/ ValidateInSeries
    \/ \E d \in RepeatRecords, sk \in BOOLEAN : CallAgain(d, sk)
    \/ \E data \in SavedBetween : UploadBetween(data)
    \/ \E bid \in {B1, B2} : DeleteBetween(bid)

SpecRepeat == InitRepeat /\ [][NextRepeat]_vars

\* ------------------------------------------------------------------ claims
\* validate_receipt was called and ret is what the call did
Called == call.by \in {"direct", "upload", "stored"}

\* the call returned a report
Returned == Called /\ ret.exc = ""

FieldNames == {"bill_id", "vendor", "date", "amount", "tax"}

IsMissing(data, f) == data[f].k \in {"absent", "none"}

AllPresent(data) == \A f \in FieldNames : ~IsMissing(data, f)

AllSuccess(results) == \A i \in 1..Len(results) : results[i].status = "success"

Titles(results) == [i \in 1..Len(results) |-> results[i].title]

\* C1: the report has passed = true exactly when every result of it has
\* status success, the one-result report of the missing-fields return included.
C1_PassedIffAllSuccess == Returned => (ret.passed <=> AllSuccess(ret.results))

C1_Witness ==
    /\ Returned
    /\ ~call.skip
    /\ Len(ret.results) = 5
    /\ ~ret.passed
    /\ ret.results[3].status = "error"
    /\ \A i \in {1, 2, 4, 5} : ret.results[i].status = "success"

\* C2: a record with one of the five fields absent or null gets a report of
\* exactly one result, the Required Fields error naming exactly the missing
\* fields in the order of the required list, with passed = false and without
\* a call of the existence lookup, whatever skip_duplicate is.
C2_MissingFieldsShortCircuit ==
    (Called /\ ~AllPresent(call.data)) =>
        /\ ret.exc = ""
        /\ ~ret.passed
        /\ Len(ret.results) = 1
        /\ ret.results[1].title = "Required Fields"
        /\ ret.results[1].status = "error"
        /\ ret.results[1].message =
             "Missing fields: "
             \o Join(SelectSeq(<<"bill_id", "vendor", "date", "amount", "tax">>,
                               LAMBDA f : IsMissing(call.data, f)))
        /\ ret.lookups = <<>>

C2_Witness ==
    /\ call.by = "direct"
    /\ ~call.skip
    /\ call.data.vendor = Absent
    /\ call.data.tax = None
    /\ call.data.bill_id = B1
    /\ receipt_exists(call.env.db, B1)
    /\ ret.results = <<Result("Required Fields", "error", "Missing fields: vendor, tax")>>

\* C3: with the five fields present the report lists one result per rule in
\* the fixed order, Duplicate Detection last exactly when skip_duplicate is
\* false; a failing middle rule does not cut the list short.
C3_FixedRuleOrder ==
    (Returned /\ AllPresent(call.data)) =>
        Titles(ret.results) =
            IF call.skip
            THEN <<"Required Fields", "Date Format", "Total Validation",
                   "Tax Rate Validation">>
            ELSE <<"Required Fields", "Date Format", "Total Validation",
                   "Tax Rate Validation", "Duplicate Detection">>

C3_Witness ==
    /\ Returned
    /\ ~call.skip
    /\ Len(ret.results) = 5
    /\ \A i \in 2..4 : ret.results[i].status = "error"
    /\ ret.results[5].title = "Duplicate Detection"

\* the number a present amount or tax is validated as, as the claims read it:
\* text that is no number counts as 0
Coerced(x) ==
    IF x.k \in {"int", "numstr"} THEN Flt(x.n)
    ELSE IF x.k = "nan" THEN NaN
    ELSE Flt(0)

\* c > 0 and 0.03 <= tax / c <= 0.13
InBand(tax, c) == c > 0 /\ 3 * c <= 100 * tax /\ 100 * tax <= 13 * c

CandidateOk(amount, tax, c) == ~amount.nan /\ ~tax.nan /\ InBand(tax.v, c)

\* C4: with a coerced tax other than 0 the Tax Rate Validation result is
\* success exactly when amount - tax or amount is a positive subtotal whose
\* rate lies in [0.03, 0.13]; otherwise it is an error and passed is false.
\* amount = 50 with tax = 40 is an error.
C4_TaxRateBand ==
    (Returned /\ AllPresent(call.data)) =>
        LET amount == Coerced(call.data.amount)
            tax == Coerced(call.data.tax)
            ok == \/ CandidateOk(amount, tax, amount.v - tax.v)
                  \/ CandidateOk(amount, tax, amount.v)
        IN /\ (tax.nan \/ tax.v # 0) =>
                /\ ret.results[4].status = (IF ok THEN "success" ELSE "error")
                /\ ~ok => ~ret.passed
           /\ (amount = Flt(50) /\ tax = Flt(40)) => ret.results[4].status = "error"

C4_Witness ==
    /\ Returned
    /\ call.data.amount = PyInt(8)
    /\ call.data.tax = PyInt(1)
    /\ ret.results[4].status = "success"

\* C5: a Tax Rate Validation success with a tax other than 0 reports the
\* subtotal and rate of amount - tax whenever that candidate qualifies, and
\* of amount only when it does not: 108 with 8 reports 100, 100 with 8
\* reports 92.
C5_FirstCandidateReported ==
    (Returned /\ AllPresent(call.data)) =>
        LET amount == Coerced(call.data.amount)
            tax == Coerced(call.data.tax)
            used == IF CandidateOk(amount, tax, amount.v - tax.v)
                    THEN amount.v - tax.v ELSE amount.v
        IN /\ (ret.results[4].status = "success" /\ (tax.nan \/ tax.v # 0)) =>
                ret.results[4].message =
                    "Tax rate OK (" \o FmtRate(tax.v, used) \o "%, Subtotal Rs"
                    \o ToString(used) \o ".00)"
           /\ (amount = Flt(108) /\ tax = Flt(8)) =>
                ret.results[4].message = "Tax rate OK (8.00%, Subtotal Rs100.00)"
           /\ (amount = Flt(100) /\ tax = Flt(8)) =>
                ret.results[4].message = "Tax rate OK (8.70%, Subtotal Rs92.00)"

C5_Witness ==
    /\ Returned
    /\ Coerced(call.data.amount) = Flt(108)
    /\ Coerced(call.data.tax) = Flt(8)
    /\ CandidateOk(Flt(108), Flt(8), 108)
    /\ ret.results[4].message = "Tax rate OK (8.00%, Subtotal Rs100.00)"

ValidDates == {"2024-02-29", "2024-01-15"}

\* a record with the five fields present, a date in YYYY-MM-DD form, an
\* amount above 0 and a tax of 0
WellFormedNoTax(data) ==
    /\ AllPresent(data)
    /\ data.date.k = "str"
    /\ data.date.s \in ValidDates
    /\ ~Coerced(data.amount).nan
    /\ Coerced(data.amount).v > 0
    /\ Coerced(data.tax) = Flt(0)

\* C6 as stated: a well-formed record with a valid date, amount > 0 and
\* tax == 0 passes, whatever skip_duplicate and the existence lookup are.
C6_Original == (Returned /\ WellFormedNoTax(call.data)) => ret.passed

\* C6 amended: such a record passes when the duplicate check is skipped or
\* its bill_id is not among the persisted receipts, and fails, on the
\* Duplicate Detection rule alone, when the check runs and finds the bill_id.
C6_PassesUnlessDuplicate ==
    (Returned /\ WellFormedNoTax(call.data)) =>
        LET dup == ~call.skip /\ receipt_exists(call.env.db, call.data.bill_id)
        IN /\ ret.passed <=> ~dup
           /\ \A i \in 1..4 : ret.results[i].status = "success"

C6_Witness ==
    /\ Returned
    /\ WellFormedNoTax(call.data)
    /\ ~call.skip
    /\ ret.passed

\* the first four rules of the report all succeeded
OtherRulesSucceed ==
    /\ Returned
    /\ Len(ret.results) >= 4
    /\ \A i \in 1..4 : ret.results[i].status = "success"

\* C7: when the other rules succeed, a call with skip_duplicate = false whose
\* bill_id is persisted ends its report with a Duplicate Detection error and
\* passed = false; with skip_duplicate = true the report passes, has no
\* Duplicate Detection result and the lookup is not called. The stored-receipt
\* page calls in skip mode only, so its reports never hold that rule.
C7_DuplicateRule ==
    /\ (OtherRulesSucceed /\ ~call.skip
          /\ receipt_exists(call.env.db, call.data.bill_id)) =>
            /\ ~ret.passed
            /\ Len(ret.results) = 5
            /\ ret.results[5] =
                 Result("Duplicate Detection", "error", "Duplicate receipt found")
    /\ (OtherRulesSucceed /\ call.skip) =>
            /\ ret.passed
            /\ Len(ret.results) = 4
            /\ ret.lookups = <<>>
    /\ call.by = "stored" =>
            /\ call.skip
            /\ ret.lookups = <<>>
            /\ \A i \in 1..Len(ret.results) : ret.results[i].title # "Duplicate Detection"

C7_Witness ==
    /\ call.by = "direct"
    /\ OtherRulesSucceed
    /\ ~call.skip
    /\ receipt_exists(call.env.db, call.data.bill_id)
    /\ ret.results[5].status = "error"

\* C8 as stated: no call of validate_receipt raises, whatever the values of
\* the record's fields are.
C8_NeverRaises == Called => ret.exc = ""

\* C9: with the five fields present, an amount that is no number makes Total
\* Validation the error "Invalid amount value" and passed false; a tax that
\* is no number makes Tax Rate Validation the success "No tax applied
\* (valid)"; the report still lists every rule and nothing else.
C9_LenientCoercion ==
    (Returned /\ AllPresent(call.data)) =>
        /\ call.data.amount.k = "str" =>
             /\ ret.results[3] =
                  Result("Total Validation", "error", "Invalid amount value")
             /\ ~ret.passed
        /\ call.data.tax.k = "str" =>
             ret.results[4] =
                 Result("Tax Rate Validation", "success", "No tax applied (valid)")
        /\ (call.data.amount.k = "str" \/ call.data.tax.k = "str") =>
             /\ Len(ret.results) = (IF call.skip THEN 4 ELSE 5)
             /\ \A i \in 1..Len(ret.results) :
                  ret.results[i].title \in
                      {"Required Fields", "Date Format", "Total Validation",
                       "Tax Rate Validation", "Duplicate Detection"}

C9_Witness ==
    /\ Returned
    /\ call.data.amount = Str("abc")
    /\ call.data.tax = Str("n/a")
    /\ Len(ret.results) = 5
    /\ ret.results[3].status = "error"
    /\ ret.results[4].status = "success"

\* C10: a call leaves the record, the persisted receipts and the session
\* state as they were, and calls the existence lookup at most once, with the
\* record's bill_id.
C10_NoSideEffects ==
    /\ Called =>
         /\ ret.data = call.data
         /\ ret.env = call.env
         /\ Len(ret.lookups) <= 1
         /\ \A i \in 1..Len(ret.lookups) : ret.lookups[i] = call.data.bill_id
    /\ call.by = "direct" =>
         /\ store = call.env.db
         /\ session = call.env.session

C10_Witness ==
    /\ call.by = "direct"
    /\ ~call.skip
    /\ ret.exc = ""
    /\ Len(store) = 1
    /\ ret.lookups = <<B1>>
    /\ Len(ret.results) = 5

\* the latest call of a series repeats the first one: the same record, the
\* same skip_duplicate and, where the lookup is called, the same answer
RepeatsFirst ==
    /\ kept.n >= 2
    /\ call.by = "direct"
    /\ call.data = kept.call.data
    /\ call.skip = kept.call.skip
    /\ \/ call.skip
       \/ receipt_exists(call.env.db, call.data.bill_id)
            <=> receipt_exists(kept.call.env.db, call.data.bill_id)

\* C11: a call that repeats an earlier one (same record, same skip_duplicate,
\* same answer of the existence lookup) ends as the earlier one did and
\* returns the same report, whatever was validated, saved or deleted in
\* between.
C11_Deterministic ==
    RepeatsFirst =>
        /\ ret.exc = kept.ret.exc
        /\ Report(ret) = Report(kept.ret)

C11_Witness ==
    /\ RepeatsFirst
    /\ kept.n = 3
    /\ kept.others = 1
    /\ ~call.skip
    /\ ret.exc = ""
    /\ receipt_exists(call.env.db, call.data.bill_id)
    /\ call.env # kept.call.env
    /\ ret.results[5].status = "error"

\* the reports the upload page can get for a record: validate_receipt called
\* with the duplicate check, the bill_id persisted or not
UploadReportsOf(data) ==
    {Report(validate_receipt(data, FALSE, Env(db, Session0))) : db \in {<<>>, <<data>>}}

\* C12 as stated: whenever the session holds both the last extracted receipt
\* and the last validation report, the report is the result of validating
\* that receipt, so the Current Uploaded Receipt section never shows the
\* report of another receipt.
C12_ReportIsOfHeldReceipt ==
    LET cur == CurrentUploadedReceipt(session)
    IN cur.shown =>
         /\ validate_receipt(cur.data, FALSE, Env(<<>>, Session0)).exc = ""
         /\ cur.report \in UploadReportsOf(cur.data)

\* no two persisted receipts have the same bill_id
DistinctBillIds(db) ==
    \A i, j \in 1..Len(db) : db[i].bill_id = db[j].bill_id => i = j

\* no Duplicate Detection result of the report is an error
NoDuplicateError(results) ==
    \A i \in 1..Len(results) :
        results[i].title = "Duplicate Detection" => results[i].status = "success"

\* a step saves a receipt only as the end of an upload run whose lookup of
\* the receipt's bill_id found nothing
SavesOnlyNonDuplicates ==
    Len(store') > Len(store) =>
        /\ run' = "saved"
        /\ call'.by = "upload"
        /\ call'.env.db = store
        /\ ~receipt_exists(store, call'.data.bill_id)
        /\ store' = Append(store, call'.data)

\* a run that gets a report from validate_receipt saves the receipt, passed
\* or not
SavesWhateverTheReport ==
    (session'.LAST_VALIDATION_REPORT # session.LAST_VALIDATION_REPORT) =>
        /\ session'.LAST_VALIDATION_REPORT = Held(Report(ret'))
        /\ store' = Append(store, session'.LAST_EXTRACTED_RECEIPT.value)

\* C13: the upload run saves a receipt only after receipt_exists answered
\* false for its bill_id in that run, and then saves it whether or not the
\* validation passed; so, with uploads and dashboard deletions each running
\* to completion, the persisted receipts never hold a bill_id twice and the
\* Duplicate Detection result of every report of the upload flow is success.
C13_SavesOnlyNonDuplicates ==
    /\ [](/\ DistinctBillIds(store)
          /\ call.by = "upload" => NoDuplicateError(ret.results)
          /\ session.LAST_VALIDATION_REPORT.set =>
               NoDuplicateError(session.LAST_VALIDATION_REPORT.value.results))
    /\ [][SavesOnlyNonDuplicates /\ SavesWhateverTheReport]_vars

C13_Witness ==
    /\ run = "saved"
    /\ call.by = "upload"
    /\ ~ret.passed
    /\ Len(ret.results) = 5
    /\ ret.results[4].status = "error"
    /\ ret.results[5] = Result("Duplicate Detection", "success", "No duplicate found")
    /\ Len(store) = 2
    /\ store[2] = call.data

====
